---- MODULE Spec2Model ----
(***************************************************************************)
(* Configuration loading and sanitization (utilities/config_helpers.rs),   *)
(* the note-name validator exercised by tests/error_handling.rs, and the   *)
(* macOS focus helper (utilities/mac_focus.rs) of Symiosis.                *)
(*                                                                         *)
(* Strings are TLA+ strings; Len, \o and SubSeq act on them character by   *)
(* character, so format!() is concatenation and str::contains is a         *)
(* substring search.                                                       *)
(***************************************************************************)
EXTENDS Integers, Sequences, FiniteSets, TLC

VARIABLES
    content,      \* load_config_from_content: the text, as toml::from_str sees it
    appConfig,    \* the AppConfig the caller holds
    logs,         \* events handed to logging::log, in order
    pc,           \* position of the configuration load
    edits,        \* number of edits made to the text on disk
    note,         \* validate_note_name: the name under validation
    noteResult,   \* validate_note_name: its Result
    PREV_PID,     \* mac_focus: static Mutex<Option<i32>>, the inner value
    poisoned,     \* mac_focus: the poison flag of the PREV_PID mutex
    focusLog,     \* mac_focus: events handed to logging::log
    running,      \* mac_focus: PIDs of the applications that are running
    lastSave,     \* mac_focus: the last save call (frontmost app, value before)
    lastHide,     \* mac_focus: the last hide call (PID taken, activation made)
    pending,      \* mac_focus: PID of the last save of another app since the last hide
    storedBy,     \* mac_focus: which save call wrote the value PREV_PID holds
    restored,     \* mac_focus: the save calls whose PID a hide has taken, in order
    saves,        \* mac_focus: number of save calls so far
    calls         \* mac_focus: number of commands invoked

vars == <<content, appConfig, logs, pc, edits, note, noteResult, PREV_PID, poisoned,
          focusLog, running, lastSave, lastHide, pending, storedBy, restored, saves,
          calls>>

configVars == <<content, appConfig, logs, pc, edits>>
noteVars == <<note, noteResult>>
focusVars == <<PREV_PID, poisoned, focusLog, running, lastSave, lastHide, pending,
               storedBy, restored, saves, calls>>

(***************************************************************************)
(* Bounds of the model.                                                    *)
(***************************************************************************)
MaxEdits == 2
MaxNameLen == 3
MaxCalls == 4

(***************************************************************************)
(* String helpers (std::str).                                              *)
(***************************************************************************)
CharAt(s, i) == SubSeq(s, i, i)

StrContains(s, sub) ==
    \E i \in 1..(Len(s) - Len(sub) + 1) : SubSeq(s, i, i + Len(sub) - 1) = sub

StartsWith(s, prefix) ==
    Len(s) >= Len(prefix) /\ SubSeq(s, 1, Len(prefix)) = prefix

RECURSIVE Repeat(_, _)
Repeat(s, n) ==
    IF n = 0 THEN ""
    ELSE LET h == Repeat(s, n \div 2)
         IN  IF n % 2 = 0 THEN h \o h ELSE h \o h \o s

UpperChars == "ABCDEFGHIJKLMNOPQRSTUVWXYZ"
LowerChars == "abcdefghijklmnopqrstuvwxyz"

UpperSet == {CharAt(UpperChars, i) : i \in 1..Len(UpperChars)}

LowerOf ==
    [c \in UpperSet |->
        CharAt(LowerChars, CHOOSE i \in 1..Len(UpperChars) : CharAt(UpperChars, i) = c)]

\* char::to_ascii_lowercase
LowerChar(c) == IF c \in UpperSet THEN LowerOf[c] ELSE c

\* str::eq_ignore_ascii_case against a lower-case word
EqIgnoreCase(s, lower) ==
    /\ Len(s) = Len(lower)
    /\ \A i \in 1..Len(s) : LowerChar(CharAt(s, i)) = CharAt(lower, i)

EndsWith(s, suffix) ==
    Len(s) >= Len(suffix) /\ SubSeq(s, Len(s) - Len(suffix) + 1, Len(s)) = suffix

\* s.split(sep) for a one-character separator: each part as <<first, last>>, the
\* positions of its characters in s (last = first - 1 for an empty part)
SplitParts(s, sep) ==
    LET cuts == {0, Len(s) + 1} \cup {i \in 1..Len(s) : CharAt(s, i) = sep}
    IN  {<<c + 1, (CHOOSE d \in cuts : d > c /\ \A e \in cuts : e > c => d <= e) - 1>> :
            c \in cuts \ {Len(s) + 1}}

\* Vec::contains
VecContains(v, x) == \E i \in 1..Len(v) : v[i] = x

Ok == [ok |-> TRUE, err |-> ""]
Err(msg) == [ok |-> FALSE, err |-> msg]
is_err(r) == ~r.ok

(***************************************************************************)
(* Domain catalogs and serde defaults (config_helpers.rs 12-93).           *)
(***************************************************************************)
\* a default with a slipped decimal place, outside 1..10000
default_max_results_TooLarge == 100 * 1000

default_max_results == 100

default_global_shortcut == "Ctrl+Shift+N"

get_available_ui_themes == <<"gruvbox-dark", "article", "modern-dark">>

get_available_markdown_themes == <<"modern-dark", "article", "gruvbox-dark">>

get_available_editor_modes == <<"basic", "vim", "emacs">>

get_available_editor_themes ==
    <<"abcdef", "abyss", "android-studio", "andromeda", "basic-dark", "basic-light",
      "forest", "github-dark", "github-light", "gruvbox-dark", "gruvbox-light",
      "material-dark", "material-light", "monokai", "nord", "palenight",
      "solarized-dark", "solarized-light", "tokyo-night-day", "tokyo-night-storm",
      "volcano", "vscode-dark", "vscode-light">>

get_available_code_themes ==
    <<"gruvbox-dark-hard", "gruvbox-dark-medium", "gruvbox-dark-soft",
      "gruvbox-light-hard", "gruvbox-light-medium", "atom-one-dark", "dracula",
      "nord", "monokai", "github-dark", "vs2015", "night-owl", "tokyo-night-dark",
      "atom-one-light", "github", "vs", "xcode", "tokyo-night-light">>

(***************************************************************************)
(* Validators (crate::utilities::validation).  The module is imported by   *)
(* config_helpers.rs and by tests/error_handling.rs; its rules are those   *)
(* the specification and the tests state.                                  *)
(***************************************************************************)
MaxPathLen == 255
MaxNoteNameLen == 255
MinFontSize == 8
MaxFontSize == 72
MessageValueLimit == 10

\* characters that are illegal in a file system path
IllegalPathChars == {"\\", "<", ">", "|", "?", "*"}

HasIllegalChar(s, illegal) == \E i \in 1..Len(s) : CharAt(s, i) \in illegal

validate_notes_directory(path) ==
    IF path = "" THEN Err("Notes directory cannot be empty")
    ELSE IF StrContains(path, "..") THEN Err("Path traversal not allowed")
    ELSE IF StartsWith(path, ".") THEN Err("Notes directory cannot start with a dot")
    ELSE IF Len(path) > MaxPathLen THEN Err("Notes directory path too long")
    ELSE IF HasIllegalChar(path, IllegalPathChars) THEN Err("Invalid notes directory")
    ELSE Ok

\* characters that are illegal in a note name
IllegalNoteChars == IllegalPathChars \cup {"/"}

\* as NoteNameError, but the offending value is always given
NoteNameError_Echo(reason, value) == Err(reason \o ": '" \o value \o "'")

\* the reason, followed by the offending value unless that value is long
NoteNameError(reason, value) ==
    Err(IF Len(value) > MessageValueLimit THEN reason
        ELSE reason \o ": '" \o value \o "'")

validate_note_name(note_name) ==
    IF note_name = "" THEN NoteNameError("Note name cannot be empty", note_name)
    ELSE IF StrContains(note_name, "..")
        THEN NoteNameError("Path traversal not allowed", note_name)
    ELSE IF StartsWith(note_name, ".")
        THEN NoteNameError("Note name cannot start with a dot", note_name)
    ELSE IF Len(note_name) > MaxNoteNameLen
        THEN NoteNameError("Note name too long", note_name)
    ELSE IF HasIllegalChar(note_name, IllegalNoteChars)
        THEN NoteNameError("Invalid note name", note_name)
    ELSE Ok

\* modifier keys of the shortcut grammar, compared case-insensitively
ModifierKeys == {"ctrl", "control", "shift", "alt", "option", "cmd", "command",
                 "meta", "super"}

IsModifier(part) == \E m \in ModifierKeys : EqIgnoreCase(part, m)

\* modifiers joined by "+", terminated by one non-modifier key
ShortcutGrammar(shortcut, minModifiers) ==
    LET parts == SplitParts(shortcut, "+")
    IN  /\ \A p \in parts : p[2] >= p[1]
        /\ Cardinality(parts) - 1 >= minModifiers
        /\ \A p \in parts :
               IsModifier(SubSeq(shortcut, p[1], p[2])) = (p[2] # Len(shortcut))

validate_shortcut_format(shortcut) ==
    IF shortcut = "" THEN Err("Shortcut cannot be empty")
    ELSE IF ~ShortcutGrammar(shortcut, 1) THEN Err("Invalid shortcut format")
    ELSE Ok

validate_basic_shortcut_format(shortcut) ==
    IF shortcut = "" THEN Err("Shortcut cannot be empty")
    ELSE IF ~ShortcutGrammar(shortcut, 0) THEN Err("Invalid shortcut format")
    ELSE Ok

validate_font_size(size, label) ==
    IF size < MinFontSize
    THEN Err(label \o " " \o ToString(size) \o " is below " \o ToString(MinFontSize))
    ELSE IF size > MaxFontSize
    THEN Err(label \o " " \o ToString(size) \o " is above " \o ToString(MaxFontSize))
    ELSE Ok

(***************************************************************************)
(* Config schema (crate::config) and its default instance.                 *)
(***************************************************************************)
ShortcutNames ==
    <<"create_note", "rename_note", "delete_note", "edit_note", "save_and_exit",
      "open_external", "open_folder", "refresh_cache", "scroll_up", "scroll_down",
      "up", "down", "navigate_previous", "navigate_next", "navigate_code_previous",
      "navigate_code_next", "navigate_link_previous", "navigate_link_next",
      "copy_current_section", "open_settings", "version_explorer", "recently_deleted">>

InterfaceConfig_default ==
    [ui_theme |-> "gruvbox-dark", markdown_render_theme |-> "modern-dark",
     md_render_code_theme |-> "gruvbox-dark-medium", font_size |-> 14,
     editor_font_size |-> 14]

EditorConfig_default == [mode |-> "basic", theme |-> "gruvbox-dark", tab_size |-> 2]

ShortcutsConfig_default ==
    [create_note |-> "Ctrl+Enter", rename_note |-> "Ctrl+m", delete_note |-> "Ctrl+x",
     edit_note |-> "Enter", save_and_exit |-> "Ctrl+s", open_external |-> "Ctrl+o",
     open_folder |-> "Ctrl+f", refresh_cache |-> "Ctrl+r", scroll_up |-> "Ctrl+u",
     scroll_down |-> "Ctrl+d", up |-> "Ctrl+k", down |-> "Ctrl+j",
     navigate_previous |-> "Ctrl+p", navigate_next |-> "Ctrl+n",
     navigate_code_previous |-> "Ctrl+Alt+h", navigate_code_next |-> "Ctrl+Alt+l",
     navigate_link_previous |-> "Ctrl+h", navigate_link_next |-> "Ctrl+l",
     copy_current_section |-> "Ctrl+y", open_settings |-> "Meta+,",
     version_explorer |-> "Ctrl+/", recently_deleted |-> "Ctrl+."]

PreferencesConfig_default == [max_search_results |-> default_max_results]

AppConfig_default ==
    [notes_directory |-> "/home/user/Documents/Notes",
     global_shortcut |-> default_global_shortcut,
     interface |-> InterfaceConfig_default,
     editor |-> EditorConfig_default,
     shortcuts |-> ShortcutsConfig_default,
     preferences |-> PreferencesConfig_default]

\* logging::log(category, message, detail)
LogEvent(category, message, detail) ==
    [category |-> category, message |-> message, detail |-> detail]

None == "None"

(***************************************************************************)
(* The sanitizer (config_helpers.rs 112-291).  A sanitize function mutates *)
(* its config in place and logs; here it returns the mutated config and    *)
(* the events it logged, in order.                                         *)
(***************************************************************************)
Sanitized(cfg, log) == [config |-> cfg, log |-> log]

\* as sanitize_interface_config, but an invalid font_size resets both font sizes
sanitize_interface_config_CoupledFonts(config, defaults) ==
    LET s1 == IF ~VecContains(get_available_ui_themes, config.ui_theme)
              THEN Sanitized([config EXCEPT !.ui_theme = defaults.ui_theme],
                     <<LogEvent("CONFIG_VALIDATION",
                         "Invalid ui_theme '" \o config.ui_theme \o "'. Using default.",
                         None)>>)
              ELSE Sanitized(config, <<>>)
        s2 == IF ~VecContains(get_available_markdown_themes, s1.config.markdown_render_theme)
              THEN Sanitized([s1.config EXCEPT !.markdown_render_theme =
                                                   defaults.markdown_render_theme],
                     s1.log \o <<LogEvent("CONFIG_VALIDATION",
                         "Invalid markdown_render_theme '"
                             \o s1.config.markdown_render_theme \o "'. Using default.",
                         None)>>)
              ELSE s1
        s3 == IF ~VecContains(get_available_code_themes, s2.config.md_render_code_theme)
              THEN Sanitized([s2.config EXCEPT !.md_render_code_theme =
                                                   defaults.md_render_code_theme],
                     s2.log \o <<LogEvent("CONFIG_VALIDATION",
                         "Invalid md_render_code_theme '"
                             \o s2.config.md_render_code_theme \o "'. Using default.",
                         None)>>)
              ELSE s2
        s4 == IF is_err(validate_font_size(s3.config.font_size, "UI font size"))
              THEN Sanitized([s3.config EXCEPT !.font_size = defaults.font_size,
                                               !.editor_font_size = defaults.editor_font_size],
                     s3.log \o <<LogEvent("CONFIG_VALIDATION",
                         "Invalid font_size " \o ToString(s3.config.font_size)
                             \o ". Using default " \o ToString(defaults.font_size) \o ".",
                         None)>>)
              ELSE s3
        s5 == IF is_err(validate_font_size(s4.config.editor_font_size, "Editor font size"))
              THEN Sanitized([s4.config EXCEPT !.editor_font_size =
                                                   defaults.editor_font_size],
                     s4.log \o <<LogEvent("CONFIG_VALIDATION",
                         "Invalid editor_font_size " \o ToString(s4.config.editor_font_size)
                             \o ". Using default " \o ToString(defaults.editor_font_size)
                             \o ".",
                         None)>>)
              ELSE s4
    IN  s5

sanitize_interface_config(config, defaults) ==
    LET s1 == IF ~VecContains(get_available_ui_themes, config.ui_theme)
              THEN Sanitized([config EXCEPT !.ui_theme = defaults.ui_theme],
                     <<LogEvent("CONFIG_VALIDATION",
                         "Invalid ui_theme '" \o config.ui_theme \o "'. Using default.",
                         None)>>)
              ELSE Sanitized(config, <<>>)
        s2 == IF ~VecContains(get_available_markdown_themes, s1.config.markdown_render_theme)
              THEN Sanitized([s1.config EXCEPT !.markdown_render_theme =
                                                   defaults.markdown_render_theme],
                     s1.log \o <<LogEvent("CONFIG_VALIDATION",
                         "Invalid markdown_render_theme '"
                             \o s1.config.markdown_render_theme \o "'. Using default.",
                         None)>>)
              ELSE s1
        s3 == IF ~VecContains(get_available_code_themes, s2.config.md_render_code_theme)
              THEN Sanitized([s2.config EXCEPT !.md_render_code_theme =
                                                   defaults.md_render_code_theme],
                     s2.log \o <<LogEvent("CONFIG_VALIDATION",
                         "Invalid md_render_code_theme '"
                             \o s2.config.md_render_code_theme \o "'. Using default.",
                         None)>>)
              ELSE s2
        s4 == IF is_err(validate_font_size(s3.config.font_size, "UI font size"))
              THEN Sanitized([s3.config EXCEPT !.font_size = defaults.font_size],
                     s3.log \o <<LogEvent("CONFIG_VALIDATION",
                         "Invalid font_size " \o ToString(s3.config.font_size)
                             \o ". Using default " \o ToString(defaults.font_size) \o ".",
                         None)>>)
              ELSE s3
        s5 == IF is_err(validate_font_size(s4.config.editor_font_size, "Editor font size"))
              THEN Sanitized([s4.config EXCEPT !.editor_font_size =
                                                   defaults.editor_font_size],
                     s4.log \o <<LogEvent("CONFIG_VALIDATION",
                         "Invalid editor_font_size " \o ToString(s4.config.editor_font_size)
                             \o ". Using default " \o ToString(defaults.editor_font_size)
                             \o ".",
                         None)>>)
              ELSE s4
    IN  s5

\* as sanitize_editor_config, but the three checks form an else-if chain: only the
\* first invalid field is corrected
sanitize_editor_config_ElseIf(config, defaults) ==
    IF ~VecContains(get_available_editor_modes, config.mode)
    THEN Sanitized([config EXCEPT !.mode = defaults.mode],
           <<LogEvent("CONFIG_VALIDATION",
               "Invalid editor mode '" \o config.mode \o "'. Using default.", None)>>)
    ELSE IF ~VecContains(get_available_editor_themes, config.theme)
    THEN Sanitized([config EXCEPT !.theme = defaults.theme],
           <<LogEvent("CONFIG_VALIDATION",
               "Invalid editor theme '" \o config.theme \o "'. Using default.", None)>>)
    ELSE IF config.tab_size = 0 \/ config.tab_size > 16
    THEN Sanitized([config EXCEPT !.tab_size = defaults.tab_size],
           <<LogEvent("CONFIG_VALIDATION",
               "Invalid tab_size " \o ToString(config.tab_size)
                   \o ". Using default " \o ToString(defaults.tab_size) \o ".", None)>>)
    ELSE Sanitized(config, <<>>)

sanitize_editor_config(config, defaults) ==
    LET s1 == IF ~VecContains(get_available_editor_modes, config.mode)
              THEN Sanitized([config EXCEPT !.mode = defaults.mode],
                     <<LogEvent("CONFIG_VALIDATION",
                         "Invalid editor mode '" \o config.mode \o "'. Using default.",
                         None)>>)
              ELSE Sanitized(config, <<>>)
        s2 == IF ~VecContains(get_available_editor_themes, s1.config.theme)
              THEN Sanitized([s1.config EXCEPT !.theme = defaults.theme],
                     s1.log \o <<LogEvent("CONFIG_VALIDATION",
                         "Invalid editor theme '" \o s1.config.theme \o "'. Using default.",
                         None)>>)
              ELSE s1
        s3 == IF s2.config.tab_size = 0 \/ s2.config.tab_size > 16
              THEN Sanitized([s2.config EXCEPT !.tab_size = defaults.tab_size],
                     s2.log \o <<LogEvent("CONFIG_VALIDATION",
                         "Invalid tab_size " \o ToString(s2.config.tab_size)
                             \o ". Using default " \o ToString(defaults.tab_size) \o ".",
                         None)>>)
              ELSE s2
    IN  s3

\* as sanitize_shortcut, but the event names the default's field before the value's:
\* the format arguments are given in the wrong order
sanitize_shortcut_SwappedArgs(shortcuts, default_shortcuts, field) ==
    IF is_err(validate_basic_shortcut_format(shortcuts[field]))
    THEN [value |-> default_shortcuts[field],
          log |-> <<LogEvent("CONFIG_VALIDATION",
                      "Invalid shortcut '" \o field \o "' for " \o shortcuts[field]
                          \o ". Using default '" \o default_shortcuts[field] \o "'.",
                      None)>>]
    ELSE [value |-> shortcuts[field], log |-> <<>>]

\* macro_rules! sanitize_shortcut for one field: the value the field is left
\* with and the events logged.  An invocation reads and writes its field only.
sanitize_shortcut(shortcuts, default_shortcuts, field) ==
    IF is_err(validate_basic_shortcut_format(shortcuts[field]))
    THEN [value |-> default_shortcuts[field],
          log |-> <<LogEvent("CONFIG_VALIDATION",
                      "Invalid shortcut '" \o shortcuts[field] \o "' for " \o field
                          \o ". Using default '" \o default_shortcuts[field] \o "'.",
                      None)>>]
    ELSE [value |-> shortcuts[field], log |-> <<>>]

\* the 22 macro invocations, their events in source order
sanitize_shortcuts_config(config, defaults) ==
    LET m == [field \in DOMAIN config |-> sanitize_shortcut(config, defaults, field)]
    IN  Sanitized([field \in DOMAIN config |-> m[field].value],
                  m.create_note.log \o m.rename_note.log \o m.delete_note.log \o
                      m.edit_note.log \o m.save_and_exit.log \o m.open_external.log \o
                      m.open_folder.log \o m.refresh_cache.log \o m.scroll_up.log \o
                      m.scroll_down.log \o m.up.log \o m.down.log \o
                      m.navigate_previous.log \o m.navigate_next.log \o
                      m.navigate_code_previous.log \o m.navigate_code_next.log \o
                      m.navigate_link_previous.log \o m.navigate_link_next.log \o
                      m.copy_current_section.log \o m.open_settings.log \o
                      m.version_explorer.log \o m.recently_deleted.log)

\* as sanitize_preferences_config, but the upper bound is off by one
sanitize_preferences_config_OffByOne(config, defaults) ==
    IF config.max_search_results = 0 \/ config.max_search_results > 10000 + 1
    THEN Sanitized([config EXCEPT !.max_search_results = defaults.max_search_results],
           <<LogEvent("CONFIG_VALIDATION",
               "Invalid max_search_results " \o ToString(config.max_search_results)
                   \o ". Using default " \o ToString(defaults.max_search_results) \o ".",
               None)>>)
    ELSE Sanitized(config, <<>>)

sanitize_preferences_config(config, defaults) ==
    IF config.max_search_results = 0 \/ config.max_search_results > 10000
    THEN Sanitized([config EXCEPT !.max_search_results = defaults.max_search_results],
           <<LogEvent("CONFIG_VALIDATION",
               "Invalid max_search_results " \o ToString(config.max_search_results)
                   \o ". Using default " \o ToString(defaults.max_search_results) \o ".",
               None)>>)
    ELSE Sanitized(config, <<>>)

sanitize_config(config) ==
    LET all_defaults == AppConfig_default
        root1 == IF is_err(validate_notes_directory(config.notes_directory))
              THEN Sanitized([config EXCEPT !.notes_directory = all_defaults.notes_directory],
                     <<LogEvent("CONFIG_VALIDATION",
                         "Invalid notes_directory '" \o config.notes_directory
                             \o "'. Using default.",
                         None)>>)
              ELSE Sanitized(config, <<>>)
        root2 == IF is_err(validate_shortcut_format(root1.config.global_shortcut))
              THEN Sanitized([root1.config EXCEPT !.global_shortcut = all_defaults.global_shortcut],
                     root1.log \o <<LogEvent("CONFIG_VALIDATION",
                         "Invalid global_shortcut '" \o root1.config.global_shortcut
                             \o "'. Using default.",
                         None)>>)
              ELSE root1
        interface_out == sanitize_interface_config(root2.config.interface, all_defaults.interface)
        editor_out == sanitize_editor_config(root2.config.editor, all_defaults.editor)
        shortcuts_out == sanitize_shortcuts_config(root2.config.shortcuts, all_defaults.shortcuts)
        preferences_out == sanitize_preferences_config(root2.config.preferences, all_defaults.preferences)
    IN  Sanitized([root2.config EXCEPT !.interface = interface_out.config,
                                    !.editor = editor_out.config,
                                    !.shortcuts = shortcuts_out.config,
                                    !.preferences = preferences_out.config],
                  root2.log \o interface_out.log \o editor_out.log \o shortcuts_out.log
                      \o preferences_out.log)

(***************************************************************************)
(* The parser (config_helpers.rs 95-110).  toml::from_str either decodes   *)
(* the text into an AppConfig or fails with an error; the text is kept as  *)
(* what the decoder makes of it: the instance its fields decode to, and a  *)
(* syntax error if it has one.                                             *)
(***************************************************************************)
toml_from_str(text) ==
    IF text.syntax_error = None
    THEN [ok |-> TRUE, value |-> text.fields, err |-> ""]
    ELSE [ok |-> FALSE, value |-> None, err |-> text.syntax_error]

\* as load_config_from_content, but the decoded instance is returned as it is
load_config_from_content_NoSanitize(text) ==
    LET decoded == toml_from_str(text)
    IN  IF decoded.ok
        THEN Sanitized(decoded.value, <<>>)
        ELSE Sanitized(AppConfig_default,
               <<LogEvent("CONFIG_PARSE", "Failed to parse config TOML. Using defaults.",
                          decoded.err)>>)

\* as load_config_from_content, but on a decode failure the fields that did decode
\* are kept and sanitized
load_config_from_content_KeepPartial(text) ==
    LET decoded == toml_from_str(text)
        partial == sanitize_config(text.fields)
    IN  IF decoded.ok
        THEN sanitize_config(decoded.value)
        ELSE Sanitized(partial.config,
               <<LogEvent("CONFIG_PARSE", "Failed to parse config TOML. Using defaults.",
                          decoded.err)>> \o partial.log)

\* the AppConfig returned and the events logged
load_config_from_content(text) ==
    LET decoded == toml_from_str(text)
    IN  IF decoded.ok
        THEN sanitize_config(decoded.value)
        ELSE Sanitized(AppConfig_default,
               <<LogEvent("CONFIG_PARSE", "Failed to parse config TOML. Using defaults.",
                          decoded.err)>>)

(***************************************************************************)
(* Loading a configuration: the text on disk is edited by hand, then       *)
(* loaded; the instance that was loaded is sanitized once more.            *)
(***************************************************************************)
RootFields == {"notes_directory", "global_shortcut"}
InterfaceFields == {"ui_theme", "markdown_render_theme", "md_render_code_theme",
                    "font_size", "editor_font_size"}
EditorFields == {"mode", "theme", "tab_size"}
ShortcutFields == {ShortcutNames[i] : i \in 1..Len(ShortcutNames)}
PreferencesFields == {"max_search_results"}

\* the governed fields, each as <<section, name>>
Fields ==
    {<<"root", n>> : n \in RootFields}
        \cup {<<"interface", n>> : n \in InterfaceFields}
        \cup {<<"editor", n>> : n \in EditorFields}
        \cup {<<"shortcuts", n>> : n \in ShortcutFields}
        \cup {<<"preferences", n>> : n \in PreferencesFields}

GetField(c, f) == IF f[1] = "root" THEN c[f[2]] ELSE c[f[1]][f[2]]

SetField(c, f, v) ==
    IF f[1] = "root" THEN [c EXCEPT ![f[2]] = v] ELSE [c EXCEPT ![f[1]][f[2]] = v]

LongDirectory == Repeat("a", MaxPathLen + 1)

\* the values an edit may give a field
Candidates(f) ==
    CASE f = <<"root", "notes_directory">> ->
             {"notes", "", "../secret", ".hidden", "file\\path", LongDirectory}
      [] f = <<"root", "global_shortcut">> -> {"ctrl+shift+n", "", "N", "Ctrl+"}
      [] f = <<"interface", "ui_theme">> -> {"article", "", "not-a-theme-at-all"}
      [] f = <<"interface", "markdown_render_theme">> -> {"article", "nonexistent"}
      [] f = <<"interface", "md_render_code_theme">> -> {"dracula", "gruvbox-dark"}
      [] f = <<"interface", "font_size">> ->
             {MinFontSize - 1, MinFontSize, MaxFontSize, MaxFontSize + 1}
      [] f = <<"interface", "editor_font_size">> -> {MinFontSize, MaxFontSize + 1}
      [] f = <<"editor", "mode">> -> {"vim", "VIM"}
      [] f = <<"editor", "theme">> -> {"nord", "gruvbox-dark-hard"}
      [] f = <<"editor", "tab_size">> -> {0, 1, 16, 17}
      [] f = <<"preferences", "max_search_results">> -> {0, 1, 10000, 10001, 50000}
      [] f = <<"shortcuts", "create_note">> -> {"", "Ctrl+Shift+Alt+"}
      [] OTHER -> {""}

\* the values an edit may give all the per-action shortcuts at once
ShortcutCandidates == {"", "Alt+Enter"}

ConfigInit ==
    /\ content = [fields |-> AppConfig_default, syntax_error |-> None]
    /\ appConfig = None
    /\ logs = <<>>
    /\ pc = "editing"
    /\ edits = 0

\* one field of the text is given another value
EditField(f, v) ==
    /\ pc = "editing"
    /\ edits < MaxEdits
    /\ content' = [content EXCEPT !.fields = SetField(@, f, v)]
    /\ edits' = edits + 1
    /\ UNCHANGED <<appConfig, logs, pc>>

\* every per-action shortcut of the text is given the same value
EditAllShortcuts(v) ==
    /\ pc = "editing"
    /\ edits < MaxEdits
    /\ content' = [content EXCEPT !.fields.shortcuts = [n \in ShortcutFields |-> v]]
    /\ edits' = edits + 1
    /\ UNCHANGED <<appConfig, logs, pc>>

\* the text is left with a section header that is not terminated
BreakSyntax ==
    /\ pc = "editing"
    /\ edits < MaxEdits
    /\ content.syntax_error = None
    /\ content' = [content EXCEPT !.syntax_error = "invalid table header"]
    /\ edits' = edits + 1
    /\ UNCHANGED <<appConfig, logs, pc>>

LoadConfig ==
    /\ pc = "editing"
    /\ \E loaded \in {load_config_from_content(content)} :
           /\ appConfig' = loaded.config
           /\ logs' = logs \o loaded.log
    /\ pc' = "loaded"
    /\ UNCHANGED <<content, edits>>

\* sanitize_config applied to the instance the load returned
SanitizeAgain ==
    /\ pc = "loaded"
    /\ \E again \in {sanitize_config(appConfig)} :
           /\ appConfig' = again.config
           /\ logs' = logs \o again.log
    /\ pc' = "sanitized_again"
    /\ UNCHANGED <<content, edits>>

\* Option: Nil is None, Some(x) is Some(x)
Nil == <<>>
Some(x) == <<x>>

NoteIdle == note = "" /\ noteResult = Nil

FocusInit ==
    /\ PREV_PID = Nil
    /\ poisoned = FALSE
    /\ focusLog = <<>>
    /\ running = {}
    /\ lastSave = Nil
    /\ lastHide = Nil
    /\ pending = Nil
    /\ storedBy = 0
    /\ restored = <<>>
    /\ saves = 0
    /\ calls = 0

Init == ConfigInit /\ NoteIdle /\ FocusInit

Next ==
    \/ \E f \in Fields : \E v \in Candidates(f) :
           EditField(f, v) /\ UNCHANGED noteVars /\ UNCHANGED focusVars
    \/ \E v \in ShortcutCandidates :
           EditAllShortcuts(v) /\ UNCHANGED noteVars /\ UNCHANGED focusVars
    \/ BreakSyntax /\ UNCHANGED noteVars /\ UNCHANGED focusVars
    \/ LoadConfig /\ UNCHANGED noteVars /\ UNCHANGED focusVars
    \/ SanitizeAgain /\ UNCHANGED noteVars /\ UNCHANGED focusVars

Spec == Init /\ [][Next]_vars

(***************************************************************************)
(* What the claims speak of.                                               *)
(***************************************************************************)
Members(catalog) == {catalog[i] : i \in 1..Len(catalog)}

\* the legal domain of governed field f
FieldValid(f, v) ==
    CASE f = <<"root", "notes_directory">> -> validate_notes_directory(v).ok
      [] f = <<"root", "global_shortcut">> -> validate_shortcut_format(v).ok
      [] f = <<"interface", "ui_theme">> -> v \in Members(get_available_ui_themes)
      [] f = <<"interface", "markdown_render_theme">> ->
             v \in Members(get_available_markdown_themes)
      [] f = <<"interface", "md_render_code_theme">> ->
             v \in Members(get_available_code_themes)
      [] f = <<"interface", "font_size">> -> validate_font_size(v, "UI font size").ok
      [] f = <<"interface", "editor_font_size">> ->
             validate_font_size(v, "Editor font size").ok
      [] f = <<"editor", "mode">> -> v \in Members(get_available_editor_modes)
      [] f = <<"editor", "theme">> -> v \in Members(get_available_editor_themes)
      [] f = <<"editor", "tab_size">> -> v \in 1..16
      [] f = <<"preferences", "max_search_results">> -> v \in 1..10000
      [] OTHER -> validate_basic_shortcut_format(v).ok

AllValid(c) == \A f \in Fields : FieldValid(f, GetField(c, f))

InvalidFields(c) == {f \in Fields : ~FieldValid(f, GetField(c, f))}

\* the instance has every section and every field of the schema
IsAppConfig(c) ==
    /\ DOMAIN c = RootFields \cup {"interface", "editor", "shortcuts", "preferences"}
    /\ DOMAIN c.interface = InterfaceFields
    /\ DOMAIN c.editor = EditorFields
    /\ DOMAIN c.shortcuts = ShortcutFields
    /\ DOMAIN c.preferences = PreferencesFields

DecodeOk == content.syntax_error = None

Events(category) == {i \in 1..Len(logs) : logs[i].category = category}

\* the name a correction event gives field f
FieldLabel(f) ==
    IF f[1] = "editor" /\ f[2] \in {"mode", "theme"} THEN "editor " \o f[2] ELSE f[2]

\* event e reports the correction of field f
EventNames(e, f) ==
    /\ e.category = "CONFIG_VALIDATION"
    /\ IF f[1] = "shortcuts"
       THEN /\ StartsWith(e.message, "Invalid shortcut '")
            /\ EndsWith(e.message, "' for " \o f[2] \o ". Using default '"
                                       \o ShortcutsConfig_default[f[2]] \o "'.")
       ELSE StartsWith(e.message, "Invalid " \o FieldLabel(f) \o " ")

EventsNaming(f) == {i \in 1..Len(logs) : EventNames(logs[i], f)}

\* C1: after sanitization every governed field is a member of its catalog, within
\* its range or accepted by its validator, and the outcome is always an AppConfig
SanitizedConfigIsValid ==
    pc \in {"loaded", "sanitized_again"} =>
        IsAppConfig(appConfig) /\ AllValid(appConfig)

SanitizedInvalidInput ==
    /\ pc = "loaded"
    /\ DecodeOk
    /\ Cardinality(InvalidFields(content.fields)) >= 2
    /\ AllValid(appConfig)

\* C2: sanitizing an instance that was sanitized leaves every field as it is
SanitizeIdempotent ==
    [][pc = "loaded" /\ pc' = "sanitized_again" => appConfig' = appConfig]_vars

SanitizedTwice ==
    /\ pc = "sanitized_again"
    /\ DecodeOk
    /\ Cardinality(InvalidFields(content.fields)) >= 2
    /\ appConfig # content.fields

\* C3: the default AppConfig is valid, and loading it returns it with no field
\* overwritten and no correction logged
DefaultIsValidFixedPoint ==
    /\ AllValid(AppConfig_default)
    /\ (pc \in {"loaded", "sanitized_again"} /\ content.fields = AppConfig_default
           => appConfig = AppConfig_default /\ Events("CONFIG_VALIDATION") = {})

DefaultSanitized ==
    /\ pc = "sanitized_again"
    /\ DecodeOk
    /\ content.fields = AppConfig_default
    /\ appConfig = AppConfig_default

\* C4: a decode failure yields the full default AppConfig, one CONFIG_PARSE event
\* and no CONFIG_VALIDATION event, and the caller gets an AppConfig, not an error
DecodeFailureGivesDefault ==
    pc = "loaded" /\ ~DecodeOk =>
        /\ appConfig = AppConfig_default
        /\ Cardinality(Events("CONFIG_PARSE")) = 1
        /\ Events("CONFIG_VALIDATION") = {}
        /\ Len(logs) = 1

DecodeFailedOnInvalidFields ==
    /\ pc = "loaded"
    /\ ~DecodeOk
    /\ InvalidFields(content.fields) # {}
    /\ appConfig = AppConfig_default

\* C5, as claimed: a successful decode is returned verbatim, invalid values included
ParserReturnsDecodedVerbatim ==
    pc = "loaded" /\ DecodeOk => appConfig = content.fields

\* C5, amended: a successful decode is sanitized before it is returned; the result
\* is the decoded instance exactly when no decoded field is invalid, and it is
\* always valid; no CONFIG_PARSE event is logged
ParserReturnsSanitized ==
    pc = "loaded" /\ DecodeOk =>
        /\ (appConfig = content.fields) = AllValid(content.fields)
        /\ AllValid(appConfig)
        /\ Events("CONFIG_PARSE") = {}

DecodedInvalidThenLoaded ==
    /\ pc = "loaded"
    /\ DecodeOk
    /\ ~AllValid(content.fields)
    /\ appConfig # content.fields

\* C6: each field is corrected on its own: it keeps its value when that value is
\* valid and takes the default's when it is not, whatever the other fields hold
FieldsCorrectedIndependently ==
    pc = "loaded" /\ DecodeOk =>
        \A f \in Fields :
            GetField(appConfig, f) =
                IF FieldValid(f, GetField(content.fields, f))
                THEN GetField(content.fields, f)
                ELSE GetField(AppConfig_default, f)

TwoUnrelatedFieldsCorrected ==
    /\ pc = "loaded"
    /\ DecodeOk
    /\ content.fields.editor.tab_size = 0
    /\ content.fields.interface.ui_theme = "not-a-theme-at-all"
    /\ appConfig.editor.tab_size = AppConfig_default.editor.tab_size
    /\ appConfig.interface.ui_theme = AppConfig_default.interface.ui_theme

\* C7: a run of the sanitizer logs one CONFIG_VALIDATION event for each invalid
\* field, naming it, and nothing else
OneEventPerInvalidField ==
    pc = "loaded" /\ DecodeOk =>
        /\ \A f \in Fields :
               Cardinality(EventsNaming(f)) =
                   IF FieldValid(f, GetField(content.fields, f)) THEN 0 ELSE 1
        /\ Len(logs) = Cardinality(InvalidFields(content.fields))
        /\ Events("CONFIG_VALIDATION") = 1..Len(logs)

AllShortcutsEmptyCorrected ==
    /\ pc = "loaded"
    /\ DecodeOk
    /\ \A n \in ShortcutFields : content.fields.shortcuts[n] = ""
    /\ appConfig.shortcuts = ShortcutsConfig_default
    /\ InvalidFields(content.fields) = {<<"shortcuts", n>> : n \in ShortcutFields}
    /\ Len(logs) = 22

\* the governed fields whose value is text
TextFields ==
    Fields \ {<<"interface", "font_size">>, <<"interface", "editor_font_size">>,
              <<"editor", "tab_size">>, <<"preferences", "max_search_results">>}

\* C8, as claimed: no correction event carries the invalid value when that value
\* is long
LongValuesWithheld ==
    pc = "loaded" /\ DecodeOk =>
        \A f \in TextFields :
            LET v == GetField(content.fields, f)
            IN  ~FieldValid(f, v) /\ Len(v) > MessageValueLimit =>
                    \A i \in 1..Len(logs) : ~StrContains(logs[i].message, v)

(***************************************************************************)
(* validate_note_name, as tests/error_handling.rs calls it: one name is    *)
(* validated and the Result inspected.                                     *)
(***************************************************************************)
NoteAlphabet == {"a", ".", "\\", "/"}

\* the strings over NoteAlphabet of at most n characters
RECURSIVE StringsUpTo(_)
StringsUpTo(n) ==
    IF n = 0 THEN {""}
    ELSE LET shorter == StringsUpTo(n - 1)
         IN  shorter \cup {w \o c : w \in shorter, c \in NoteAlphabet}

\* "note-" U+6D4B U+8BD5 "-" U+1F980 ".md" of test_function_input_bounds; each
\* character outside ASCII is written %<code point>, which no rule looks at
UnicodeName == "note-%6D4B%8BD5-%1F980.md"

\* the names of the tests, short names, and the same names behind a long prefix
NoteNames ==
    StringsUpTo(MaxNameLen)
        \cup {Repeat("a", MessageValueLimit) \o w : w \in StringsUpTo(MaxNameLen)}
        \cup {"../secret", ".hidden", "file\\path", UnicodeName,
              Repeat("a", 256), Repeat("a", 10000)}

NoteInit == ConfigInit /\ FocusInit /\ note \in NoteNames /\ noteResult = Nil

ValidateNoteName ==
    /\ noteResult = Nil
    /\ noteResult' = Some(validate_note_name(note))
    /\ UNCHANGED note

NoteNext == ValidateNoteName /\ UNCHANGED configVars /\ UNCHANGED focusVars

NoteSpec == NoteInit /\ [][NoteNext]_vars

\* the rule a rejection reason stands for
RuleViolated(reason, name) ==
    CASE reason = "Note name cannot be empty" -> name = ""
      [] reason = "Path traversal not allowed" -> StrContains(name, "..")
      [] reason = "Note name cannot start with a dot" -> StartsWith(name, ".")
      [] reason = "Note name too long" -> Len(name) > 255
      [] reason = "Invalid note name" ->
             \E i \in 1..Len(name) : CharAt(name, i) \in IllegalNoteChars

NoteReasons ==
    {"Note name cannot be empty", "Path traversal not allowed",
     "Note name cannot start with a dot", "Note name too long", "Invalid note name"}

\* C9: a name that is empty, holds "..", starts with a dot, is too long or holds a
\* backslash is rejected with the reason of a rule it violates; the non-ASCII name
\* is accepted; the error text of a rejected name of more than 10 characters does
\* not contain the name
NoteNameRejections ==
    noteResult # Nil =>
        LET result == noteResult[1]
        IN  /\ (\E r \in NoteReasons : RuleViolated(r, note)) => is_err(result)
            /\ is_err(result) =>
                   \E r \in NoteReasons : StartsWith(result.err, r) /\ RuleViolated(r, note)
            /\ note = UnicodeName => result = Ok
            /\ is_err(result) /\ Len(note) > 10 => ~StrContains(result.err, note)
            /\ note = "../secret" => StrContains(result.err, "Path traversal not allowed")
            /\ note = ".hidden" =>
                   StrContains(result.err, "Note name cannot start with a dot")
            /\ note = "file\\path" => StrContains(result.err, "Invalid note name")
            /\ Len(note) \in {256, 10000} => StrContains(result.err, "Note name too long")

LongNameRejected ==
    /\ noteResult # Nil
    /\ is_err(noteResult[1])
    /\ Len(note) > 10
    /\ Len(note) <= 255
    /\ StartsWith(noteResult[1].err, "Invalid note name")

(***************************************************************************)
(* The macOS focus helper (mac_focus.rs).                                  *)
(***************************************************************************)
\* std::process::id() and the PIDs of two other applications
OurPid == 1
Pids == {2, 3}

FocusEvent(message, detail) == LogEvent("MAC_FOCUS", message, detail)

\* PREV_PID.lock().unwrap_or_else(..): a poisoned lock is logged and recovered
LockRecovery ==
    IF poisoned THEN <<FocusEvent("PREV_PID mutex was poisoned, recovering", None)>>
    ELSE <<>>

\* as SaveCurrentFrontmostApp, but a save made while Symiosis is frontmost clears
\* the saved PID
SaveCurrentFrontmostApp_ClearsOnSelf(frontmost) ==
    /\ calls < MaxCalls
    /\ frontmost \in {Nil, Some(OurPid)} \cup {Some(pid) : pid \in running}
    /\ calls' = calls + 1
    /\ saves' = saves + 1
    /\ IF frontmost = Nil
       THEN UNCHANGED <<PREV_PID, storedBy, focusLog>>
       ELSE /\ focusLog' = focusLog \o LockRecovery
            /\ IF frontmost # Some(OurPid)
               THEN PREV_PID' = frontmost /\ storedBy' = saves + 1
               ELSE PREV_PID' = Nil /\ UNCHANGED storedBy
    /\ pending' = IF frontmost \in {Nil, Some(OurPid)} THEN pending ELSE frontmost
    /\ lastSave' = Some([frontmost |-> frontmost, before |-> PREV_PID,
                         after |-> PREV_PID'])
    /\ UNCHANGED <<poisoned, running, lastHide, restored>>

\* save_current_frontmost_app, with the frontmost application NSWorkspace reports
SaveCurrentFrontmostApp(frontmost) ==
    /\ calls < MaxCalls
    /\ frontmost \in {Nil, Some(OurPid)} \cup {Some(pid) : pid \in running}
    /\ calls' = calls + 1
    /\ saves' = saves + 1
    /\ IF frontmost = Nil
       THEN UNCHANGED <<PREV_PID, storedBy, focusLog>>
       ELSE /\ focusLog' = focusLog \o LockRecovery
            /\ IF frontmost # Some(OurPid)
               THEN PREV_PID' = frontmost /\ storedBy' = saves + 1
               ELSE UNCHANGED <<PREV_PID, storedBy>>
    /\ pending' = IF frontmost \in {Nil, Some(OurPid)} THEN pending ELSE frontmost
    /\ lastSave' = Some([frontmost |-> frontmost, before |-> PREV_PID,
                         after |-> PREV_PID'])
    /\ UNCHANGED <<poisoned, running, lastHide, restored>>

\* hide_app_and_restore_previous; window.hide() and activateWithOptions succeed or
\* fail as the system decides
HideAppAndRestorePrevious(hideOk, activateOk) ==
    /\ calls < MaxCalls
    /\ calls' = calls + 1
    /\ LET prev_pid_opt == PREV_PID
           is_running == prev_pid_opt # Nil /\ prev_pid_opt[1] \in running
           hidden == IF hideOk THEN <<>>
                     ELSE <<FocusEvent("Failed to hide window", "window error")>>
           restore ==
               IF prev_pid_opt = Nil THEN <<>>
               ELSE IF is_running
               THEN IF activateOk THEN <<>>
                    ELSE <<FocusEvent("Failed to activate previous app",
                                      "PID: " \o ToString(prev_pid_opt[1]))>>
               ELSE <<FocusEvent("Previous app no longer running",
                                 "PID: " \o ToString(prev_pid_opt[1]))>>
       IN  /\ PREV_PID' = Nil
           /\ focusLog' = focusLog \o hidden \o LockRecovery \o restore
           /\ lastHide' = Some([taken |-> prev_pid_opt,
                                expected |-> pending,
                                wasRunning |-> is_running,
                                activated |-> IF is_running THEN prev_pid_opt ELSE Nil])
           /\ restored' = IF prev_pid_opt = Nil THEN restored
                          ELSE Append(restored, storedBy)
    /\ pending' = Nil
    /\ UNCHANGED <<poisoned, running, lastSave, storedBy, saves>>

\* another application is started
AppLaunches(pid) ==
    /\ pid \notin running
    /\ running' = running \cup {pid}
    /\ UNCHANGED <<PREV_PID, poisoned, focusLog, lastSave, lastHide, pending, storedBy,
                   restored, saves, calls>>

\* an application quits
AppQuits(pid) ==
    /\ pid \in running
    /\ running' = running \ {pid}
    /\ UNCHANGED <<PREV_PID, poisoned, focusLog, lastSave, lastHide, pending, storedBy,
                   restored, saves, calls>>

\* a holder of the PREV_PID lock fails while holding it
PoisonLock ==
    /\ ~poisoned
    /\ poisoned' = TRUE
    /\ UNCHANGED <<PREV_PID, focusLog, running, lastSave, lastHide, pending, storedBy,
                   restored, saves, calls>>

FocusNext ==
    \/ \E frontmost \in {Nil, Some(OurPid)} \cup {Some(pid) : pid \in Pids} :
           SaveCurrentFrontmostApp(frontmost) /\ UNCHANGED configVars /\ UNCHANGED noteVars
    \/ \E hideOk \in BOOLEAN : \E activateOk \in BOOLEAN :
           HideAppAndRestorePrevious(hideOk, activateOk)
               /\ UNCHANGED configVars /\ UNCHANGED noteVars
    \/ \E pid \in Pids : AppLaunches(pid) /\ UNCHANGED configVars /\ UNCHANGED noteVars
    \/ \E pid \in Pids : AppQuits(pid) /\ UNCHANGED configVars /\ UNCHANGED noteVars
    \/ PoisonLock /\ UNCHANGED configVars /\ UNCHANGED noteVars

FocusSpecInit == ConfigInit /\ NoteIdle /\ FocusInit

FocusSpec == FocusSpecInit /\ [][FocusNext]_vars

NoDuplicates(seq) == \A i, j \in 1..Len(seq) : seq[i] = seq[j] => i = j

\* C10: a save with Symiosis or no application frontmost leaves the saved PID as it
\* was; a hide takes the PID of the last save of another application since the
\* previous hide, activates that application and no other, and clears the saved PID,
\* so it takes nothing when there was no such save and no save is restored twice;
\* all of it whether or not the lock is poisoned
FocusRestoresLastSavedOnce ==
    /\ PREV_PID = pending
    /\ lastSave # Nil /\ lastSave[1].frontmost \in {Nil, Some(OurPid)} =>
           lastSave[1].after = lastSave[1].before
    /\ lastSave # Nil /\ lastSave[1].frontmost \notin {Nil, Some(OurPid)} =>
           lastSave[1].after = lastSave[1].frontmost
    /\ lastHide # Nil =>
           /\ lastHide[1].taken = lastHide[1].expected
           /\ lastHide[1].activated =
                  IF lastHide[1].wasRunning THEN lastHide[1].expected ELSE Nil
           /\ lastHide[1].expected = Nil => lastHide[1].activated = Nil
    /\ NoDuplicates(restored)

RestoredAfterSelfSaveWhilePoisoned ==
    /\ poisoned
    /\ lastSave # Nil
    /\ lastSave[1].frontmost = Some(OurPid)
    /\ lastSave[1].before # Nil
    /\ lastHide # Nil
    /\ lastHide[1].taken = lastSave[1].before
    /\ lastHide[1].activated = lastHide[1].taken
    /\ PREV_PID = Nil
    /\ Len(restored) = 1
    /\ Len(focusLog) >= 2

====
